---- MODULE Spec2Model ----
(***************************************************************************)
(* Model of the Waveguide mode-solver wrapper of                           *)
(* cspdk/sin300/cband/tidy3d_tools/send_to_FDE.py: the cache-key           *)
(* derivation (filepath), the lazily built simulation handle (waveguide),  *)
(* the read-through/write-through result cache (_data) and the accessors   *)
(* built on them, together with the directory and files they touch.        *)
(*                                                                         *)
(* The program is single-threaded: every action below is one complete      *)
(* call of a constructor, property or method.  The mode solver and the     *)
(* file system are collaborators: a solver run yields one of MaxResult     *)
(* outputs, and a directory creation or an archive write may fail with     *)
(* an I/O error (the archive is then left as it was).                      *)
(***************************************************************************)
EXTENDS Integers, Sequences, FiniteSets, TLC

NumInst == 2
MaxResult == 2

Inst == 1..NumInst
Results == 1..MaxResult

(* Optional values: <<>> is None, <<v>> is the value v.                    *)
NoneVal == <<>>
Some(v) == <<v>>
IsNone(o) == o = <<>>

(***************************************************************************)
(* Constructor inputs.  The fields that the caching layer reads are        *)
(* modelled; every other declared field keeps its default.  A wavelength   *)
(* is given as a container kind holding numbers.                           *)
(***************************************************************************)
Wavelengths ==
    { [kind |-> "list",    vals |-> <<1550>>],
      [kind |-> "ndarray", vals |-> <<1550>>] }

CachePaths == { NoneVal, Some(""), Some("modes"), Some("alt") }

BaseInput ==
    [wavelength |-> [kind |-> "list", vals |-> <<1550>>],
     num_modes |-> 2, group_index_step |-> FALSE,
     cache_path |-> Some("modes"), overwrite |-> FALSE]

(* The base configuration, and the base with any one field changed.        *)
Inputs ==
    { [BaseInput EXCEPT !.wavelength = w] : w \in Wavelengths }
    \cup { [BaseInput EXCEPT !.num_modes = n] : n \in {1, 2} }
    \cup { [BaseInput EXCEPT !.group_index_step = g] : g \in BOOLEAN }
    \cup { [BaseInput EXCEPT !.cache_path = p] : p \in CachePaths }
    \cup { [BaseInput EXCEPT !.overwrite = o] : o \in BOOLEAN }

(* @pydantic.validator("wavelength"): np.array(v, dtype=float).            *)
_fix_wavelength_type(v) == [kind |-> "ndarray", vals |-> v.vals]

(* BaseModel.__init__: field validation; the private attributes are unset. *)
Validate(in) == [in EXCEPT !.wavelength = _fix_wavelength_type(in.wavelength)]

(***************************************************************************)
(* Serialisation of field values.                                          *)
(***************************************************************************)
SerBool(b) == IF b THEN "True" ELSE "False"
SerOpt(o) == IF IsNone(o) THEN "None" ELSE o[1]
SerFloat(x) == ToString(x) \o ".0"
(* The numbers of a sequence, whatever container holds them (the inputs    *)
(* of this model hold one or two).                                         *)
SerSeq(w) ==
    IF Len(w.vals) = 1 THEN "[" \o SerFloat(w.vals[1]) \o "]"
    ELSE "[" \o SerFloat(w.vals[1]) \o ", " \o SerFloat(w.vals[2]) \o "]"

custom_serializer(cfg, setting) ==
    CASE setting = "cache_path"       -> SerOpt(cfg.cache_path)
      [] setting = "group_index_step" -> SerBool(cfg.group_index_step)
      [] setting = "num_modes"        -> ToString(cfg.num_modes)
      [] setting = "overwrite"        -> SerBool(cfg.overwrite)
      [] setting = "wavelength"       -> SerSeq(cfg.wavelength)

(* sorted(self.__fields__.keys()), restricted to the modelled fields.      *)
SortedFields ==
    << "cache_path", "group_index_step", "num_modes", "overwrite", "wavelength" >>

(* f"{setting}={custom_serializer(getattr(self, setting))}"                *)
Setting(cfg, k) ==
    SortedFields[k] \o "=" \o custom_serializer(cfg, SortedFields[k])

(* Variant: the caching options are left out of the settings.              *)
named_args_without_options(cfg) ==
    Setting(cfg, 2) \o "_" \o Setting(cfg, 3) \o "_" \o Setting(cfg, 5)

(* "_".join(settings), over the five modelled fields.                      *)
named_args_string(cfg) ==
    Setting(cfg, 1) \o "_" \o Setting(cfg, 2) \o "_" \o Setting(cfg, 3)
        \o "_" \o Setting(cfg, 4) \o "_" \o Setting(cfg, 5)

(* hashlib.md5(...).hexdigest()[:16]: a digest that is a function of the   *)
(* string alone, taken to be free of collisions on the strings of this     *)
(* model.                                                                  *)
md5hex16(s) == "md5<" \o s \o ">"

(* not self.cache_path                                                     *)
CacheDisabled(cfg) == IsNone(cfg.cache_path) \/ cfg.cache_path = Some("")

(***************************************************************************)
(* The result mapping and its archive.                                     *)
(***************************************************************************)
FieldNames == { "Ex", "Ey", "Ez", "Hx", "Hy", "Hz" }

AllNames ==
    FieldNames \cup { "x", "y", "n_eff", "mode_area", "fraction_te",
                      "fraction_tm", "n_group" }

(* wg.n_group is not None exactly when a group-index step is configured.   *)
DataNames(c) ==
    (AllNames \ { "n_group" })
    \cup (IF c.group_index_step THEN { "n_group" } ELSE {})

(* The dictionary _data assembles from the solver output r.                *)
Collect(c, r) ==
    [ n \in DataNames(c) |->
        CASE n \in { "x", "y" } -> << 0 >>
          [] n \in { "fraction_te", "fraction_tm" } ->
                 [ k \in 1..c.num_modes |-> r ]
          [] OTHER -> << r >> ]

EmptyMap == [ n \in {} |-> << >> ]

(* Variant: only the field components are written.                        *)
np_savez_fields_only(m) ==
    [ f \in { n \o ".npy" : n \in DOMAIN m \cap FieldNames } |->
        m[CHOOSE n \in DOMAIN m : n \o ".npy" = f] ]

(* np.savez(filepath, mapping): one member "<name>.npy" per entry.         *)
np_savez(m) ==
    [ f \in { n \o ".npy" : n \in DOMAIN m } |->
        m[CHOOSE n \in DOMAIN m : n \o ".npy" = f] ]

(* np.load(filepath): the members, keyed by name without the suffix.       *)
np_load(a) ==
    [ n \in { k \in AllNames : (k \o ".npy") \in DOMAIN a } |->
        a[n \o ".npy"] ]

(***************************************************************************)
(* State.                                                                  *)
(*   live    constructed instances                                         *)
(*   cfg     the validated fields of each instance                         *)
(*   cached  _cached_data: unset, or the mapping and where it came from    *)
(*   handle  _waveguide: 0 when unset, else the number of times the        *)
(*           handle was built                                              *)
(*   dirs    existing cache directories                                    *)
(*   files   existing cache files: path |-> archive                        *)
(* History, read by the properties only:                                   *)
(*   ctor    the container kind each instance's wavelength was given in    *)
(*   seen    the paths filepath has returned for each instance             *)
(*   store   per path, how often it was written and the mapping that was   *)
(*           handed to the last write                                      *)
(*   ev      what the last call did                                        *)
(***************************************************************************)
VARIABLES live, cfg, cached, handle, dirs, files, ctor, seen, store, ev

vars == << live, cfg, cached, handle, dirs, files, ctor, seen, store, ev >>

Unset == [set |-> FALSE, src |-> "none", map |-> EmptyMap]
NoHandle == 0

Event(op, i) ==
    [op |-> op, inst |-> i, outcome |-> "ok", built |-> {}, simRan |-> {},
     wrote |-> NoneVal, loaded |-> NoneVal, mkdir |-> NoneVal,
     path |-> NoneVal, field_name |-> "", mode_index |-> 0]

Init ==
    /\ live = {}
    /\ cfg = [i \in Inst |-> Validate(BaseInput)]
    /\ cached = [i \in Inst |-> Unset]
    /\ handle = [i \in Inst |-> NoHandle]
    /\ dirs = {}
    /\ files = EmptyMap
    /\ ctor = [i \in Inst |-> ""]
    /\ seen = [i \in Inst |-> {}]
    /\ store = EmptyMap
    /\ ev = Event("start", 0)

(* Waveguide(...): validation only; nothing is computed or stored.  The     *)
(* instances are numbered in the order of their construction.              *)
Construct(i, in) ==
    /\ i = Cardinality(live) + 1
    /\ live' = live \cup {i}
    /\ ctor' = [ctor EXCEPT ![i] = in.wavelength.kind]
    /\ cfg' = [cfg EXCEPT ![i] = Validate(in)]
    /\ cached' = [cached EXCEPT ![i] = Unset]
    /\ handle' = [handle EXCEPT ![i] = NoHandle]
    /\ ev' = Event("construct", i)
    /\ UNCHANGED << dirs, files, seen, store >>

(* f"{self.__class__.__name__}_{h}.npz"                                    *)
CacheFileName(c) == "Waveguide_" \o md5hex16(named_args_string(c)) \o ".npz"

(* Variant: the file name also depends on whether the instance has        *)
(* memoized its mapping.                                                   *)
filepath_of_attributes(i, fault) ==
    LET c == cfg[i] IN
    IF CacheDisabled(c)
    THEN [path |-> NoneVal, dirs |-> dirs, outcome |-> "ok", mkdir |-> NoneVal]
    ELSE LET d == c.cache_path[1] IN
         IF d \notin dirs /\ fault = "mkdir"
         THEN [path |-> NoneVal, dirs |-> dirs, outcome |-> "OSError",
               mkdir |-> NoneVal]
         ELSE [path |-> Some(<< d, IF cached[i].set
                                   THEN CacheFileName(c) \o "+"
                                   ELSE CacheFileName(c) >>),
               dirs |-> dirs \cup {d}, outcome |-> "ok",
               mkdir |-> IF d \in dirs THEN NoneVal ELSE Some(d)]

(* Variant: only None disables the cache; the empty path is a directory.   *)
filepath_none_only(i, fault) ==
    LET c == cfg[i] IN
    IF IsNone(c.cache_path)
    THEN [path |-> NoneVal, dirs |-> dirs, outcome |-> "ok", mkdir |-> NoneVal]
    ELSE LET d == c.cache_path[1] IN
         IF d \notin dirs /\ fault = "mkdir"
         THEN [path |-> NoneVal, dirs |-> dirs, outcome |-> "OSError",
               mkdir |-> NoneVal]
         ELSE [path |-> Some(<< d, CacheFileName(c) >>),
               dirs |-> dirs \cup {d}, outcome |-> "ok",
               mkdir |-> IF d \in dirs THEN NoneVal ELSE Some(d)]

(***************************************************************************)
(* Waveguide.filepath.  fault = "mkdir" makes a needed directory creation  *)
(* fail.  Yields the path << directory, file name >>, the directories      *)
(* afterwards and the outcome.                                             *)
(***************************************************************************)
filepath(i, fault) ==
    LET c == cfg[i] IN
    IF CacheDisabled(c)
    THEN [path |-> NoneVal, dirs |-> dirs, outcome |-> "ok", mkdir |-> NoneVal]
    ELSE LET d == c.cache_path[1] IN
         IF d \notin dirs /\ fault = "mkdir"
         THEN [path |-> NoneVal, dirs |-> dirs, outcome |-> "OSError",
               mkdir |-> NoneVal]
         ELSE [path |-> Some(<< d, CacheFileName(c) >>),
               dirs |-> dirs \cup {d}, outcome |-> "ok",
               mkdir |-> IF d \in dirs THEN NoneVal ELSE Some(d)]

(* Variant: the handle is built anew on every read.                        *)
waveguide_rebuild(i) == [h |-> handle[i] + 1, built |-> TRUE]

(***************************************************************************)
(* Waveguide.waveguide: the handle is built when the private attribute is  *)
(* unset, and returned as it is otherwise.                                 *)
(***************************************************************************)
waveguide(i) ==
    IF handle[i] = NoHandle
    THEN [h |-> 1, built |-> TRUE]
    ELSE [h |-> handle[i], built |-> FALSE]

(* Variants of the hit test: the overwrite flag read the wrong way round,  *)
(* the overwrite flag not read, and the file looked up without the suffix  *)
(* the archive writer appends.                                             *)
CacheHitInverted(i, path) ==
    /\ ~IsNone(path)
    /\ path[1] \in DOMAIN files
    /\ cfg[i].overwrite

CacheHitIgnoresOverwrite(i, path) ==
    /\ ~IsNone(path)
    /\ path[1] \in DOMAIN files

CacheHitNoSuffix(i, path) ==
    /\ ~IsNone(path)
    /\ << path[1][1], "Waveguide_" \o md5hex16(named_args_string(cfg[i])) >>
           \in DOMAIN files
    /\ ~cfg[i].overwrite

(* filepath and filepath.exists() and not self.overwrite                   *)
CacheHit(i, path) ==
    /\ ~IsNone(path)
    /\ path[1] \in DOMAIN files
    /\ ~cfg[i].overwrite

(***************************************************************************)
(* Waveguide._data.  r is what the handle's mode solver yields if it is    *)
(* asked in this call; fault = "write" makes the archive write fail.       *)
(* Yields the instance's private attributes, the directories and the       *)
(* files afterwards, the outcome and what the call did.                    *)
(***************************************************************************)
_data(i, fault, r) ==
    LET same == [cached |-> cached[i], handle |-> handle[i], dirs |-> dirs,
                 files |-> files, outcome |-> "ok", built |-> FALSE,
                 simRan |-> FALSE, wrote |-> NoneVal, loaded |-> NoneVal,
                 mkdir |-> NoneVal, path |-> NoneVal]
    IN
    IF cached[i].set THEN same
    ELSE
      LET fp == filepath(i, fault) IN
      IF fp.outcome # "ok" THEN [same EXCEPT !.outcome = fp.outcome]
      ELSE
        LET found == [same EXCEPT !.dirs = fp.dirs, !.mkdir = fp.mkdir,
                                  !.path = fp.path]
        IN
        IF CacheHit(i, fp.path)
        THEN [found EXCEPT
                !.cached = [set |-> TRUE, src |-> "load",
                            map |-> np_load(files[fp.path[1]])],
                !.loaded = fp.path]
        ELSE
          LET wg == waveguide(i)
              m == Collect(cfg[i], r)
              computed == [found EXCEPT
                             !.cached = [set |-> TRUE, src |-> "sim", map |-> m],
                             !.handle = wg.h,
                             !.built = wg.built,
                             !.simRan = TRUE]
          IN
          IF IsNone(fp.path) THEN computed
          ELSE IF fault = "write"
               THEN [computed EXCEPT !.outcome = "OSError"]
               ELSE [computed EXCEPT
                       !.files = (fp.path[1] :> np_savez(m)) @@ files,
                       !.wrote = fp.path]

(* The history after a filepath result: the path it returned.              *)
Seen(i, path) ==
    IF IsNone(path) THEN seen ELSE [seen EXCEPT ![i] = @ \cup { path[1] }]

(* The history after a write of mapping m to path (none: no write).        *)
Stored(path, m) ==
    IF IsNone(path) THEN store
    ELSE LET p == path[1]
             n == IF p \in DOMAIN store THEN store[p].n ELSE 0
         IN (p :> [n |-> n + 1, map |-> m]) @@ store

(* The state after a call that went through _data, and its event.          *)
AfterData(i, d, e) ==
    /\ cached' = [cached EXCEPT ![i] = d.cached]
    /\ handle' = [handle EXCEPT ![i] = d.handle]
    /\ dirs' = d.dirs
    /\ files' = d.files
    /\ seen' = Seen(i, d.path)
    /\ store' = Stored(d.wrote, d.cached.map)
    /\ ev' = [e EXCEPT !.built = IF d.built THEN {i} ELSE {},
                       !.simRan = IF d.simRan THEN {i} ELSE {},
                       !.wrote = d.wrote, !.loaded = d.loaded,
                       !.mkdir = d.mkdir, !.path = d.path]
    /\ UNCHANGED << live, ctor, cfg >>

(* self.filepath read on its own.                                          *)
GetFilepath(i, fault) ==
    /\ i \in live
    /\ LET fp == filepath(i, fault) IN
       /\ dirs' = fp.dirs
       /\ seen' = Seen(i, fp.path)
       /\ ev' = [Event("filepath", i) EXCEPT !.outcome = fp.outcome,
                                             !.mkdir = fp.mkdir,
                                             !.path = fp.path]
    /\ UNCHANGED << live, ctor, cfg, cached, handle, files, store >>

(* self.waveguide read on its own; index, plot_index and plot_grid read    *)
(* it and nothing else of the instance's state.                            *)
GetWaveguide(i) ==
    /\ i \in live
    /\ LET wg == waveguide(i) IN
       /\ handle' = [handle EXCEPT ![i] = wg.h]
       /\ ev' = [Event("waveguide", i) EXCEPT
                   !.built = IF wg.built THEN {i} ELSE {}]
    /\ UNCHANGED << live, ctor, cfg, cached, dirs, files, seen, store >>

(* self._data read on its own; fraction_te, fraction_tm, n_eff, n_group,   *)
(* mode_area and loss_dB_per_cm read it and project the mapping.           *)
GetData(i, fault, r) ==
    /\ i \in live
    /\ LET d == _data(i, fault, r) IN
       AfterData(i, d, [Event("_data", i) EXCEPT !.outcome = d.outcome])

(***************************************************************************)
(* Waveguide.overlap: both handles are read and both mode solvers asked    *)
(* for their data; the product is returned and nothing is kept.            *)
(***************************************************************************)
overlap(i, j) ==
    /\ i \in live /\ j \in live
    /\ LET wi == waveguide(i)
           wj == IF j = i THEN [h |-> wi.h, built |-> FALSE] ELSE waveguide(j)
       IN
       /\ handle' = [handle EXCEPT ![i] = wi.h, ![j] = wj.h]
       /\ ev' = [Event("overlap", i) EXCEPT
                   !.built = (IF wi.built THEN {i} ELSE {})
                             \cup (IF wj.built THEN {j} ELSE {}),
                   !.simRan = {i, j}]
    /\ UNCHANGED << live, ctor, cfg, cached, dirs, files, seen, store >>

(***************************************************************************)
(* Waveguide.plot_field: the mapping is read first, then the arguments     *)
(* are checked.                                                            *)
(***************************************************************************)
PlotNames == { "Ex", "Ew" }
ModeIndices == { 0, 1 }
PlotValues == { "real" }

plot_field(i, field_name, value, mode_index, fault, r) ==
    /\ i \in live
    /\ LET d == _data(i, fault, r)
           outcome ==
               IF d.outcome # "ok" THEN d.outcome
               ELSE IF field_name \notin DOMAIN d.cached.map THEN "KeyError"
               ELSE IF mode_index >= cfg[i].num_modes THEN "ValueError"
               ELSE IF value \notin { "real", "imag", "abs", "dB", "phase" }
                    THEN "ValueError"
               ELSE "ok"
       IN AfterData(i, d, [Event("plot_field", i) EXCEPT
                              !.outcome = outcome,
                              !.field_name = field_name,
                              !.mode_index = mode_index])

(***************************************************************************)
(* The I/O faults that can strike a call on instance i, and the outputs    *)
(* its mode solver can yield: none and a fixed one when the mapping is     *)
(* already memoized, since nothing is then asked of either.                *)
(***************************************************************************)
Faults == { "none", "mkdir", "write" }
FaultsAt(i) == IF cached[i].set THEN { "none" } ELSE Faults
OutputsAt(i) == IF cached[i].set THEN { 1 } ELSE Results

Next ==
    \/ \E i \in Inst, in \in Inputs : Construct(i, in)
    \/ \E i \in Inst, fault \in { "none", "mkdir" } : GetFilepath(i, fault)
    \/ \E i \in Inst : GetWaveguide(i)
    \/ \E i \in Inst : \E fault \in FaultsAt(i), r \in OutputsAt(i) :
           GetData(i, fault, r)
    \/ \E i \in Inst, j \in Inst : overlap(i, j)

Spec == Init /\ [][Next]_vars

(* The calls of plot_field, among constructions and result accesses.       *)
NextPlot ==
    \/ \E i \in Inst, in \in Inputs : Construct(i, in)
    \/ \E i \in Inst : \E fault \in FaultsAt(i), r \in OutputsAt(i) :
           GetData(i, fault, r)
    \/ \E i \in Inst, f \in PlotNames, v \in PlotValues, k \in ModeIndices :
           \E fault \in FaultsAt(i), r \in OutputsAt(i) :
               plot_field(i, f, v, k, fault, r)

SpecPlot == Init /\ [][NextPlot]_vars

(***************************************************************************)
(* Properties.                                                             *)
(***************************************************************************)
Enabled(i) == ~CacheDisabled(cfg[i])

(* The cache file of instance i when caching is enabled.                   *)
KeyPath(i) == << cfg[i].cache_path[1], CacheFileName(cfg[i]) >>

(* m is what archive a holds: the same names, the same arrays.             *)
SameArrays(m, a) ==
    /\ DOMAIN a = { n \o ".npy" : n \in DOMAIN m }
    /\ \A n \in DOMAIN m : a[n \o ".npy"] = m[n]

SameSerialized(c1, c2) ==
    \A k \in DOMAIN SortedFields :
        custom_serializer(c1, SortedFields[k])
            = custom_serializer(c2, SortedFields[k])

DiffersOnlyIn(c1, c2, f) ==
    /\ c1[f] # c2[f]
    /\ \A g \in DOMAIN c1 \ { f } : c1[g] = c2[g]

(* C1: instances whose fields all serialize alike are given the same cache *)
(* path by every read of filepath, whatever container the wavelength was   *)
(* passed in, whichever instance is asked, and whether or not the instance *)
(* has memoized anything by then.                                          *)
C1_KeyDeterminism ==
    \A i \in live, j \in live :
        SameSerialized(cfg[i], cfg[j]) =>
            \A p \in seen[i], q \in seen[j] : p = q

C1_Witness ==
    \E i \in live, j \in live :
        /\ ctor[i] = "list" /\ ctor[j] = "ndarray"
        /\ seen[i] # {} /\ seen[i] = seen[j]
        /\ cached[i].set /\ ~cached[j].set
        /\ ev.op = "filepath" /\ ev.inst = i

(* C2: a first result access with caching enabled, the key's file present  *)
(* and overwrite off returns the mapping held by that file; it builds no   *)
(* handle, asks no solver and writes nothing.                              *)
C2_HitNeverSimulates ==
    [][ \A i \in live :
          ( /\ ev'.op = "_data" /\ ev'.inst = i
            /\ ~cached[i].set
            /\ Enabled(i) /\ ~cfg[i].overwrite
            /\ KeyPath(i) \in DOMAIN files )
          => ( /\ ev'.outcome = "ok"
               /\ cached'[i].set /\ cached'[i].src = "load"
               /\ SameArrays(cached'[i].map, files[KeyPath(i)])
               /\ ev'.loaded = Some(KeyPath(i))
               /\ ev'.built = {} /\ ev'.simRan = {} /\ ev'.wrote = NoneVal
               /\ handle' = handle /\ files' = files /\ store' = store )
      ]_vars

C2_Witness ==
    /\ ev.op = "_data" /\ ev.loaded # NoneVal
    /\ cached[ev.inst].src = "load"
    /\ handle[ev.inst] = NoHandle

(* C3: with cache_path None or empty, filepath is None, a result access    *)
(* takes the mapping from the simulation, and no call on the instance      *)
(* creates a directory, reads or writes a file.                            *)
C3_DisabledComputesOnly ==
    [][ \A i \in live :
          ( /\ CacheDisabled(cfg[i])
            /\ ev'.inst = i
            /\ ev'.op \in { "filepath", "waveguide", "_data", "overlap" } )
          => ( /\ dirs' = dirs /\ files' = files /\ store' = store
               /\ ev'.outcome = "ok"
               /\ ev'.path = NoneVal /\ ev'.mkdir = NoneVal
               /\ ev'.loaded = NoneVal /\ ev'.wrote = NoneVal
               /\ seen'[i] = {}
               /\ ev'.op = "_data" =>
                      /\ cached'[i].set /\ cached'[i].src = "sim"
                      /\ ~cached[i].set => ev'.simRan = {i} )
      ]_vars

C3_Witness ==
    /\ ev.op = "_data" /\ ev.simRan = { ev.inst }
    /\ cfg[ev.inst].cache_path = Some("")
    /\ cached[ev.inst].src = "sim"
    /\ files # EmptyMap

(* C4, as stated: with overwrite on and caching enabled, every result      *)
(* request that returns has run the simulation and written the file.       *)
C4_EveryRequestRecomputes ==
    \A i \in live :
        ( /\ ev.op = "_data" /\ ev.inst = i /\ ev.outcome = "ok"
          /\ Enabled(i) /\ cfg[i].overwrite )
        => ( ev.simRan = {i} /\ ev.wrote # NoneVal )

(* C4, amended: with overwrite on and caching enabled, the first result    *)
(* request of an instance never loads; when it returns it has run the      *)
(* simulation and written its mapping to the key's file, present or not.   *)
(* Later requests on the same instance return the memoized mapping and     *)
(* neither simulate nor write.                                             *)
C4_FirstRequestRecomputes ==
    [][ \A i \in live :
          ( /\ ev'.op = "_data" /\ ev'.inst = i
            /\ Enabled(i) /\ cfg[i].overwrite )
          => IF cached[i].set
             THEN /\ cached'[i] = cached[i]
                  /\ ev'.simRan = {} /\ ev'.wrote = NoneVal
                  /\ ev'.loaded = NoneVal
                  /\ files' = files /\ store' = store
             ELSE /\ ev'.loaded = NoneVal
                  /\ ev'.outcome = "ok" =>
                         /\ ev'.simRan = {i}
                         /\ cached'[i].src = "sim"
                         /\ ev'.wrote = Some(KeyPath(i))
                         /\ SameArrays(cached'[i].map, files'[KeyPath(i)])
                         /\ store'[KeyPath(i)].n =
                                IF KeyPath(i) \in DOMAIN store
                                THEN store[KeyPath(i)].n + 1 ELSE 1
      ]_vars

C4_Witness ==
    /\ ev.op = "_data" /\ ev.wrote # NoneVal
    /\ cfg[ev.inst].overwrite
    /\ store[ev.wrote[1]].n = 2

(* C5: a result access that computes with caching enabled and returns has  *)
(* stored its mapping under the instance's key; a result access that loads *)
(* obtains the names and arrays of the mapping that was handed to the last *)
(* store of that file, without asking the solver.                          *)
C5_WriteThroughRoundTrip ==
    [][ \A i \in live :
          ( ev'.op = "_data" /\ ev'.inst = i /\ ~cached[i].set )
          => /\ ( Enabled(i) /\ ev'.outcome = "ok" /\ cached'[i].src = "sim" )
                => /\ ev'.wrote = Some(KeyPath(i))
                   /\ KeyPath(i) \in DOMAIN files'
                   /\ SameArrays(cached'[i].map, files'[KeyPath(i)])
             /\ ev'.loaded # NoneVal
                => /\ ~cfg[i].overwrite
                   /\ ev'.loaded = Some(KeyPath(i))
                   /\ cached'[i].map = store[KeyPath(i)].map
                   /\ ev'.simRan = {}
      ]_vars

C5_Witness ==
    /\ ev.op = "_data" /\ ev.loaded # NoneVal
    /\ "n_group" \in DOMAIN cached[ev.inst].map
    /\ \E j \in live \ { ev.inst } :
          /\ cfg[j] = cfg[ev.inst]
          /\ cached[j].src = "sim"
          /\ cached[j].map = cached[ev.inst].map

(* C6: a plot_field call with a field name outside Ex..Hz or a mode index  *)
(* not below num_modes is rejected and leaves the memoized state and the   *)
(* disk cache as they were.                                                *)
C6_ValidationPrecedesComputation ==
    [][ ( /\ ev'.op = "plot_field"
          /\ \/ ev'.field_name \notin FieldNames
             \/ ev'.mode_index >= cfg[ev'.inst].num_modes )
        => ( /\ ev'.outcome # "ok"
             /\ ev'.simRan = {} /\ ev'.built = {}
             /\ ev'.loaded = NoneVal /\ ev'.wrote = NoneVal
             /\ UNCHANGED << cached, handle, dirs, files >> )
      ]_vars

(* C7: with caching enabled, a result access that returns a mapping        *)
(* returns one that the key's file holds: none is served unpersisted.      *)
C7_NoUnpersistedServing ==
    \A i \in live :
        ( /\ ev.op = "_data" /\ ev.inst = i /\ ev.outcome = "ok"
          /\ Enabled(i) )
        => KeyPath(i) \in DOMAIN files

(* C8, as stated: no cache file is written more than once.                 *)
C8_WrittenAtMostOnce ==
    \A p \in DOMAIN store : store[p].n <= 1

(* C8, amended: a construction touches no directory and no file; a file    *)
(* is written only by the first result access of an instance; a file that  *)
(* exists is written again only by an instance with overwrite on, so the   *)
(* file of a key with overwrite off is written at most once; a file, once  *)
(* written, stays.                                                         *)
C8_WrittenOnceUnlessOverwrite ==
    [][ /\ ev'.op = "construct" =>
               dirs' = dirs /\ files' = files /\ store' = store
        /\ \A p \in DOMAIN files : p \in DOMAIN files'
        /\ \A i \in live :
              ( ev'.inst = i /\ ev'.wrote # NoneVal )
              => /\ ~cached[i].set
                 /\ ev'.op = "_data"
                 /\ ev'.wrote[1] \in DOMAIN files => cfg[i].overwrite
        /\ \A i \in live' :
              ~cfg'[i].overwrite =>
                  \A p \in seen'[i] \cap DOMAIN store' : store'[p].n <= 1
      ]_vars

C8_Witness ==
    \E i \in live, j \in live :
        /\ i # j
        /\ ~cfg[i].overwrite
        /\ cached[i].src = "sim" /\ cached[j].src = "load"
        /\ \E p \in seen[i] \cap seen[j] :
              p \in DOMAIN store /\ store[p].n = 1

(* C9: an instance has no handle after construction, has one after any     *)
(* read of waveguide (on its own, in overlap, or in a result access that   *)
(* computes), and the handle is built at most once; no archive holds       *)
(* anything but the arrays of a mapping.                                   *)
C9_HandleBuiltOnce ==
    /\ \A i \in Inst :
          /\ handle[i] \in { NoHandle, 1 }
          /\ i \notin live => handle[i] = NoHandle
          /\ i \in ev.built => handle[i] = 1
          /\ i \in ev.simRan => handle[i] = 1
    /\ ev.op = "construct" => handle[ev.inst] = NoHandle
    /\ ev.op \in { "waveguide", "overlap" } => handle[ev.inst] = 1
    /\ \A p \in DOMAIN files :
          DOMAIN files[p] \subseteq { n \o ".npy" : n \in AllNames }

C9_Witness ==
    /\ ev.op = "overlap" /\ ev.built = {}
    /\ cached[ev.inst].src = "sim"
    /\ handle[ev.inst] = 1

(* C10: two instances whose fields differ in overwrite alone, or in        *)
(* cache_path alone, are given different file names; an instance loads and *)
(* writes only the path filepath gave it, so an instance with overwrite on *)
(* never loads, and never touches the file of its overwrite-off twin.      *)
C10_OptionsAreInTheKey ==
    /\ \A i \in live, j \in live :
          ( \/ DiffersOnlyIn(cfg[i], cfg[j], "overwrite")
            \/ DiffersOnlyIn(cfg[i], cfg[j], "cache_path") )
          => \A p \in seen[i], q \in seen[j] : p[2] # q[2]
    /\ ev.wrote # NoneVal => ev.wrote[1] \in seen[ev.inst]
    /\ ev.loaded # NoneVal => ev.loaded[1] \in seen[ev.inst]
    /\ \A i \in live : cfg[i].overwrite => cached[i].src # "load"

C10_Witness ==
    \E i \in live, j \in live :
        /\ DiffersOnlyIn(cfg[i], cfg[j], "overwrite")
        /\ seen[i] # {} /\ seen[j] # {}
        /\ seen[i] \cup seen[j] \subseteq DOMAIN files

====
